---- MODULE Spec2Model ----
(***************************************************************************)
(* Header-carried sessions and the API gateway of oscarapi/middleware.py.  *)
(*                                                                         *)
(* Strings are sequences of one-character strings, so that the regular     *)
(* expression HTTP_SESSION_ID_REGEX is modelled by what it matches, with   *)
(* its lazy and greedy quantifiers, and not as a black box.                *)
(*                                                                         *)
(* Two specifications share the module:                                    *)
(*   SpecParse  the pure function parse_session_id and the rendering of    *)
(*              the Session-Id response header, over bounded header texts; *)
(*   Spec       the request pipeline: ApiGatewayMiddleWare, then           *)
(*              HeaderSessionMiddleware, the view, and the response phase. *)
(***************************************************************************)
EXTENDS Naturals, Sequences, FiniteSets, TLC

VARIABLES
    \* ---- SpecParse: one call of parse_session_id and its rendering ----
    meta,       \* request.META['HTTP_SESSION_ID']: [present, val]
    parsed,     \* what parse_session_id(request) returned
    rendered,   \* the Session-Id header rendered from parsed
    reparsed,   \* parse_session_id applied to the rendered header
    ppc,        \* "input" -> "parsed" -> "rendered" -> "reparsed"
    \* ---- Spec: the request pipeline ----
    registry,   \* models.ApiKey.objects: the set of keys that exist
    store,      \* the session store: set of [key, origin]
    req         \* per request: inputs, attributes set on it, response, position

parseVars == <<meta, parsed, rendered, reparsed, ppc>>
pipeVars  == <<registry, store, req>>
vars      == <<meta, parsed, rendered, reparsed, ppc, registry, store, req>>

----------------------------------------------------------------------------
(* Bounds *)

\* longest free text placed after the header's prefix
MaxBody == 3
\* most hex-suffix segments appended after that text
MaxSegs == 3

----------------------------------------------------------------------------
(* Texts *)

SID_PREFIX == <<"S", "I", "D", ":">>
ANON == <<"A", "N", "O", "N">>
AUTH == <<"A", "U", "T", "H">>
COLON == <<":">>

SeqsUpTo(S, n) == UNION {[1..k -> S] : k \in 0..n}

RECURSIVE Flatten(_)
Flatten(ss) == IF ss = <<>> THEN <<>> ELSE Head(ss) \o Flatten(Tail(ss))

\* the tail of s from position k on
From(s, k) == SubSeq(s, k, Len(s))

\* s begins with p
StartsWith(s, p) == Len(s) >= Len(p) /\ SubSeq(s, 1, Len(p)) = p

----------------------------------------------------------------------------
(* HTTP_SESSION_ID_REGEX                                                   *)
(*  ^SID:(?P<type>(?:ANON|AUTH)):(?P<realm>.*?):(?P<session_id>.+?)        *)
(*       (?:[-:][0-9a-fA-F]+){0,2}$                                        *)

\* [0-9a-fA-F]
HexDigits ==
    {"0", "1", "2", "3", "4", "5", "6", "7", "8", "9",
     "a", "b", "c", "d", "e", "f", "A", "B", "C", "D", "E", "F"}

\* [-:]
Separators == {"-", ":"}

\* the upper limit of the {0,2} repetition
MaxSuffixReps == 2

\* (a segment whose characters after the separator are not checked)
IsSuffixSeg_anychar(t) ==
    /\ Len(t) >= 2
    /\ t[1] \in Separators

\* [-:][0-9a-fA-F]+ matches the whole of t
IsSuffixSeg(t) ==
    /\ Len(t) >= 2
    /\ t[1] \in Separators
    /\ \A k \in 2..Len(t) : t[k] \in HexDigits

\* (the repetition written as an optional single segment, {0,1})
SuffixRep_once(t, n) ==
    \/ t = <<>>
    \/ n > 0 /\ IsSuffixSeg(t)

\* (the repetition written without its upper limit, *)
RECURSIVE SuffixRep_unbounded(_, _)
SuffixRep_unbounded(t, n) ==
    \/ t = <<>>
    \/ \E k \in 2..Len(t) :
            /\ IsSuffixSeg(SubSeq(t, 1, k))
            /\ SuffixRep_unbounded(From(t, k + 1), n)

\* (?:[-:][0-9a-fA-F]+){0,n}$ matches the whole of t
RECURSIVE SuffixRep(_, _)
SuffixRep(t, n) ==
    \/ t = <<>>
    \/ /\ n > 0
       /\ \E k \in 2..Len(t) :
            /\ IsSuffixSeg(SubSeq(t, 1, k))
            /\ SuffixRep(From(t, k + 1), n - 1)

\* (a type of any four characters accepted)
HasSidAndType_anytype(s) ==
    /\ Len(s) >= 9
    /\ SubSeq(s, 1, 4) = SID_PREFIX
    /\ s[9] = ":"

\* ^SID:(?:ANON|AUTH): matches the first nine characters of s
HasSidAndType(s) ==
    /\ Len(s) >= 9
    /\ SubSeq(s, 1, 4) = SID_PREFIX
    /\ SubSeq(s, 5, 8) \in {ANON, AUTH}
    /\ s[9] = ":"

\* ends j of session_id (.+? starting after the colon at i) from which the
\* suffix repetition reaches the end of s
SidEnds(s, i) ==
    {j \in (i + 1)..Len(s) : SuffixRep(From(s, j + 1), MaxSuffixReps)}

\* positions i of the colon that ends realm (.*? starting at 10) from which
\* the rest of the pattern can match
RealmEnds(s) ==
    {i \in 10..Len(s) : s[i] = ":" /\ SidEnds(s, i) # {}}

\* (a greedy quantifier, * or +, tries the longest candidate first)
Lazy_greedy(S) == CHOOSE x \in S : \A y \in S : y <= x

\* a lazy quantifier (*?, +?) tries the shortest candidate first
Lazy(S) == CHOOSE x \in S : \A y \in S : x <= y

\* re.match returned None
None == [ok |-> FALSE, type |-> <<>>, realm |-> <<>>, session_id |-> <<>>]

\* HTTP_SESSION_ID_REGEX.match(s).groupdict(), or None
RegexMatch(s) ==
    IF HasSidAndType(s) /\ RealmEnds(s) # {}
    THEN LET i == Lazy(RealmEnds(s))
             j == Lazy(SidEnds(s, i))
         IN  [ok |-> TRUE,
              type |-> SubSeq(s, 5, 8),
              realm |-> SubSeq(s, 10, i - 1),
              session_id |-> SubSeq(s, i + 1, j)]
    ELSE None

\* parse_session_id(request), m being request.META.get('HTTP_SESSION_ID')
parse_session_id(m) ==
    IF m.present THEN RegexMatch(m.val) ELSE None

\* (the format string without its realm field)
RenderSessionId_norealm(p) ==
    SID_PREFIX \o p.type \o COLON \o p.session_id

\* 'SID:%(type)s:%(realm)s:%(session_id)s' % parsed_session_uri
RenderSessionId(p) ==
    SID_PREFIX \o p.type \o COLON \o p.realm \o COLON \o p.session_id

----------------------------------------------------------------------------
(* SpecParse: the header texts parse_session_id is applied to *)

BodyChars == {":", "-", "1", "z"}

\* prefixes the regular expression accepts
GoodPrefixes ==
    {SID_PREFIX \o ANON \o COLON,
     SID_PREFIX \o AUTH \o COLON}

\* none, a type in lower case, another scheme, no colon after the type
BadPrefixes ==
    {<<>>,
     SID_PREFIX \o <<"a", "n", "o", "n">> \o COLON,
     <<"X", "I", "D", ":">> \o ANON \o COLON,
     SID_PREFIX \o ANON}

\* "-1" and ":1" are hex segments, "-z" is not
SuffixPieces == {<<"-", "1">>, <<":", "1">>, <<"-", "z">>}

HeaderTexts ==
    {p \o b \o Flatten(g) :
        p \in GoodPrefixes, b \in SeqsUpTo(BodyChars, MaxBody),
        g \in SeqsUpTo(SuffixPieces, MaxSegs)}
    \cup
    {p \o b : p \in BadPrefixes, b \in SeqsUpTo(BodyChars, MaxBody)}

Absent == [present |-> FALSE, val |-> <<>>]

ParseTexts ==
    /\ meta \in {Absent} \cup {[present |-> TRUE, val |-> t] : t \in HeaderTexts}
    /\ parsed = None
    /\ rendered = <<>>
    /\ reparsed = None
    /\ ppc = "input"

\* parse_session_id(request)
DoParse ==
    /\ ppc = "input"
    /\ parsed' = parse_session_id(meta)
    /\ ppc' = "parsed"
    /\ UNCHANGED <<meta, rendered, reparsed>>

\* the Session-Id header process_response writes from the parsed reference
DoRender ==
    /\ ppc = "parsed"
    /\ parsed.ok
    /\ rendered' = RenderSessionId(parsed)
    /\ ppc' = "rendered"
    /\ UNCHANGED <<meta, parsed, reparsed>>

\* the client sends the header it received back: it is parsed again
DoReparse ==
    /\ ppc = "rendered"
    /\ reparsed' = parse_session_id([present |-> TRUE, val |-> rendered])
    /\ ppc' = "reparsed"
    /\ UNCHANGED <<meta, parsed, rendered>>

PipeIdle ==
    /\ registry = {}
    /\ store = {}
    /\ req = <<>>

ParseNext ==
    \/ DoParse /\ UNCHANGED pipeVars
    \/ DoRender /\ UNCHANGED pipeVars
    \/ DoReparse /\ UNCHANGED pipeVars

ParseInit == ParseTexts /\ PipeIdle

SpecParse == ParseInit /\ [][ParseNext]_vars

----------------------------------------------------------------------------
(* The reading of a header text that the grammar describes, written as an  *)
(* explicit right-to-left scan; the properties below compare the regular   *)
(* expression with it.                                                     *)

Colons(s) == {k \in 1..Len(s) : s[k] = ":"}

\* position of the n-th colon of s, 0 when s has fewer
NthColon(s, n) ==
    IF Cardinality(Colons(s)) >= n
    THEN CHOOSE k \in Colons(s) : Cardinality({c \in Colons(s) : c <= k}) = n
    ELSE 0

\* the text after the third colon of s
AfterThirdColon(s) == From(s, NthColon(s, 3) + 1)

\* scanning leftwards from k: where the run of hex digits ending at k begins
RECURSIVE HexRunStart(_, _)
HexRunStart(t, k) ==
    IF k >= 1 /\ t[k] \in HexDigits THEN HexRunStart(t, k - 1) ELSE k + 1

\* position of the separator that begins the rightmost trailing hex segment
\* of t, 0 when t does not end in a separator followed by hex digits
LastSegStart(t) ==
    LET h == HexRunStart(t, Len(t))
    IN  IF h <= Len(t) /\ h >= 2 /\ t[h - 1] \in Separators THEN h - 1 ELSE 0

\* t ends in a -hex or :hex segment
EndsInHexSeg(t) == LastSegStart(t) > 0

\* strip trailing hex segments of t, rightmost first, at most n of them, and
\* only while what remains is not empty
RECURSIVE ScanStrip(_, _)
ScanStrip(t, n) ==
    LET k == LastSegStart(t)
    IN  IF n > 0 /\ k > 1 THEN ScanStrip(SubSeq(t, 1, k - 1), n - 1) ELSE t

\* how many trailing hex segments can be stripped from t that way
RECURSIVE TrailingSegCount(_)
TrailingSegCount(t) ==
    LET k == LastSegStart(t)
    IN  IF k > 1 THEN 1 + TrailingSegCount(SubSeq(t, 1, k - 1)) ELSE 0

\* t is the concatenation of exactly n hex segments
RECURSIVE IsSegs(_, _)
IsSegs(t, n) ==
    IF n = 0 THEN t = <<>>
    ELSE LET k == LastSegStart(t)
         IN  k > 0 /\ IsSegs(SubSeq(t, 1, k - 1), n - 1)

\* s reads SID:<ANON|AUTH>:<realm>:<non-empty rest>
WellFormedText(s) ==
    /\ NthColon(s, 3) > 0
    /\ NthColon(s, 3) < Len(s)
    /\ SubSeq(s, 1, NthColon(s, 1) - 1) = <<"S", "I", "D">>
    /\ SubSeq(s, NthColon(s, 1) + 1, NthColon(s, 2) - 1) \in {ANON, AUTH}

\* the explicit scan: the fields of s with at most n trailing segments stripped
ScanParse(s, n) ==
    IF WellFormedText(s)
    THEN [ok |-> TRUE,
          type |-> SubSeq(s, NthColon(s, 1) + 1, NthColon(s, 2) - 1),
          realm |-> SubSeq(s, NthColon(s, 2) + 1, NthColon(s, 3) - 1),
          session_id |-> ScanStrip(AfterThirdColon(s), n)]
    ELSE None

\* s with its trailing hex segments stripped: at most n of them
Canonical(s, n) ==
    SubSeq(s, 1, NthColon(s, 3)) \o ScanStrip(AfterThirdColon(s), n)

\* a header value no trailing hex segment can be stripped from
SuffixFree(h) == TrailingSegCount(AfterThirdColon(h)) = 0

----------------------------------------------------------------------------
(* Properties of parse_session_id and of the rendered header (SpecParse) *)

\* the header text parse_session_id was applied to
Text == meta.val

\* C5 as stated: the header rendered from parse(s) equals s with all its
\* trailing hex segments stripped, and no hex segment can be stripped from it.
C5_RoundTripAllStripped ==
    ppc \in {"rendered", "reparsed"} =>
        /\ rendered = Canonical(Text, Len(Text))
        /\ SuffixFree(rendered)

\* C5 amended: the header rendered from parse(s) equals s with its last
\* trailing hex segments stripped, at most two of them; it is suffix-free
\* whenever the text after the third colon of s ends in at most two.
C5_RoundTrip ==
    ppc \in {"rendered", "reparsed"} =>
        /\ rendered = Canonical(Text, 2)
        /\ TrailingSegCount(AfterThirdColon(Text)) <= 2 => SuffixFree(rendered)

C5_Witness ==
    /\ ppc = "rendered"
    /\ TrailingSegCount(AfterThirdColon(Text)) = 1
    /\ Len(rendered) < Len(Text)
    /\ SuffixFree(rendered)

\* SID:<ty>:<realm>:<sid> is the text that was parsed, sid being what follows
\* the colon at position c
IsComposedAt(ty, c) ==
    /\ meta.present
    /\ Len(Text) > c
    /\ StartsWith(Text, SID_PREFIX \o ty \o COLON)
    /\ Text[c] = ":"
    /\ ~EndsInHexSeg(From(Text, c + 1))

Recovered(ty, c) ==
    parsed = [ok |-> TRUE, type |-> ty,
              realm |-> SubSeq(Text, 10, c - 1),
              session_id |-> From(Text, c + 1)]

\* C6 as stated: for every type, every realm (any characters) and every
\* non-empty sessionId not ending in a hex segment, parsing
\* SID:<type>:<realm>:<sessionId> returns exactly these three fields.
C6_RecoversAnyRealm ==
    ppc # "input" =>
        \A ty \in {ANON, AUTH} : \A c \in 10..Len(Text) :
            IsComposedAt(ty, c) => Recovered(ty, c)

\* C6 amended: the same, for every realm that contains no colon.
C6_RecoversFields ==
    ppc # "input" =>
        \A ty \in {ANON, AUTH} : \A c \in 10..Len(Text) :
            (IsComposedAt(ty, c) /\ \A k \in 10..(c - 1) : Text[k] # ":")
                => Recovered(ty, c)

C6_Witness ==
    /\ ppc = "parsed"
    /\ IsComposedAt(AUTH, 10)
    /\ Recovered(AUTH, 10)
    /\ Len(parsed.session_id) >= 3
    /\ \E k \in 1..Len(parsed.session_id) : parsed.session_id[k] = ":"

\* C7 as stated: parsing the canonical rendering of a parsed reference
\* yields the same reference again.
C7_ReparseIsIdentity ==
    ppc = "reparsed" => reparsed = parsed

\* C7 amended: it yields the same reference again whenever the text after
\* the third colon of s ends in at most two hex segments.
C7_Idempotent ==
    (ppc = "reparsed" /\ TrailingSegCount(AfterThirdColon(Text)) <= 2)
        => reparsed = parsed

C7_Witness ==
    /\ ppc = "reparsed"
    /\ TrailingSegCount(AfterThirdColon(Text)) = 2
    /\ reparsed = parsed

\* what the parse removed from the end of the text after the third colon
Removed == From(AfterThirdColon(Text), Len(parsed.session_id) + 1)

\* C8: session_id is the text after the third colon less at most two
\* trailing hex segments; when that text ends in three or more, exactly the
\* last two are removed and session_id still ends in a hex segment.
C8_StripBounded ==
    (ppc # "input" /\ parsed.ok) =>
        /\ parsed.session_id \o Removed = AfterThirdColon(Text)
        /\ \E n \in 0..2 : IsSegs(Removed, n)
        /\ TrailingSegCount(AfterThirdColon(Text)) >= 3 =>
              /\ IsSegs(Removed, 2)
              /\ EndsInHexSeg(parsed.session_id)

C8_Witness ==
    /\ ppc = "parsed"
    /\ parsed.ok
    /\ TrailingSegCount(AfterThirdColon(Text)) >= 3
    /\ IsSegs(Removed, 2)

\* the text between the first and the second colon (to the end without one)
TypeField(s) ==
    SubSeq(s, NthColon(s, 1) + 1,
           IF NthColon(s, 2) > 0 THEN NthColon(s, 2) - 1 ELSE Len(s))

Malformed ==
    \/ ~meta.present
    \/ Text = <<>>
    \/ ~StartsWith(Text, SID_PREFIX)
    \/ TypeField(Text) \notin {ANON, AUTH}
    \/ Cardinality(Colons(Text)) < 3

\* C9: an absent or empty header, one without the SID: prefix, one whose
\* type is not exactly ANON or AUTH, or one with fewer than three colons
\* parses to None.
C9_MalformedIsNone ==
    (ppc # "input" /\ Malformed) => parsed = None

C9_Witness ==
    /\ ppc = "parsed"
    /\ meta.present
    /\ StartsWith(Text, SID_PREFIX)
    /\ Cardinality(Colons(Text)) >= 3
    /\ TypeField(Text) = <<"a", "n", "o", "n">>
    /\ parsed = None

\* C10: on every header text the regular expression returns what the
\* explicit scan returns: the fields around the first three colons, with
\* trailing hex segments stripped rightmost first, at most two, the rest
\* kept non-empty, and a trailing segment that is not hexadecimal kept.
C10_RegexIsScan ==
    ppc # "input" =>
        parsed = (IF meta.present THEN ScanParse(Text, 2) ELSE None)

C10_Witness ==
    /\ ppc = "parsed"
    /\ parsed.ok
    /\ TrailingSegCount(AfterThirdColon(Text)) = 2
    /\ ~EndsInHexSeg(parsed.session_id)
    /\ \E k \in 2..Len(parsed.session_id) :
          /\ parsed.session_id[k - 1] = "-"
          /\ parsed.session_id[k] \notin HexDigits

\* C19: every reference parse_session_id returns is well formed: its type
\* is ANON or AUTH, its session_id is not empty, and its realm holds no
\* colon, being the text between the second and the third colon.
C19_ReferenceWellFormed ==
    (ppc # "input" /\ parsed.ok) =>
        /\ parsed.type \in {ANON, AUTH}
        /\ parsed.session_id # <<>>
        /\ \A k \in 1..Len(parsed.realm) : parsed.realm[k] # ":"
        /\ parsed.realm =
              SubSeq(Text, NthColon(Text, 2) + 1, NthColon(Text, 3) - 1)

C19_Witness ==
    /\ ppc = "parsed"
    /\ parsed.ok
    /\ parsed.realm = <<"z">>
    /\ \E k \in 1..Len(parsed.session_id) : parsed.session_id[k] = ":"

----------------------------------------------------------------------------
(* Spec: the request pipeline                                              *)
(*   ApiGatewayMiddleWare.process_request                                  *)
(*   -> HeaderSessionMiddleware.process_request -> view                    *)
(*   -> HeaderSessionMiddleware.process_response                           *)

\* requests in flight at the same time
ReqIds == {"r1", "r2"}

\* reverse('api-root')
ApiRoot == <<"/", "a", "/">>

\* request.path
Paths == {<<"/", "A", "/">>, <<"/", "s", "/">>}

UpperCase == <<"A", "B", "C", "D", "E", "F", "G", "H", "I", "J", "K", "L", "M",
               "N", "O", "P", "Q", "R", "S", "T", "U", "V", "W", "X", "Y", "Z">>
LowerCase == <<"a", "b", "c", "d", "e", "f", "g", "h", "i", "j", "k", "l", "m",
               "n", "o", "p", "q", "r", "s", "t", "u", "v", "w", "x", "y", "z">>

\* str.lower()
Lower(s) ==
    [k \in 1..Len(s) |->
        IF \E n \in 1..Len(UpperCase) : UpperCase[n] = s[k]
        THEN LowerCase[CHOOSE n \in 1..Len(UpperCase) : UpperCase[n] = s[k]]
        ELSE s[k]]

\* (the path compared without lower-casing it)
is_api_request_casesensitive(path) == StartsWith(path, ApiRoot)

\* is_api_request(request)
is_api_request(path) == StartsWith(Lower(path), Lower(ApiRoot))

\* keys that can be registered: models.ApiKey.key is a required field, an
\* ApiKey with a blank key is not a registry state
ApiKeys == {"k1"}

\* request.META['HTTP_AUTHORIZATION']: absent, empty, registrable, never registered
NoAuth == [present |-> FALSE, val |-> ""]
Authorizations ==
    {NoAuth} \cup {[present |-> TRUE, val |-> v] : v \in {"", "k1", "k2"}}

\* authentication.get_authorization_header(request)
get_authorization_header(a) == IF a.present THEN a.val ELSE ""

\* (a lookup that remembers the keys it accepted for the requests in flight)
KeyExists_cached(keys, key) ==
    \/ key \in keys
    \/ \E s \in DOMAIN req :
          /\ req[s].pc \in {"session", "view", "response", "done"}
          /\ req[s].response.status # "403"
          /\ req[s].auth.present
          /\ req[s].auth.val = key

\* (a registry lookup that finds every key)
KeyExists_always(keys, key) == TRUE

\* models.ApiKey.objects.filter(key=key).exists()
KeyExists(keys, key) == key \in keys

\* get_domain(request)
Domain == <<"e">>

\* session ids: "1" has a session in the store from the start (made at a
\* login, outside this code), "2" has none
SessionOne == <<"1">>
SessionTwo == <<"2">>

SessionHeader(ty, realm, sid) ==
    [present |-> TRUE, val |-> SID_PREFIX \o ty \o COLON \o realm \o COLON \o sid]

\* request.META['HTTP_SESSION_ID'] of the pipeline's requests
PipelineHeaders ==
    {Absent,
     [present |-> TRUE,
      val |-> SID_PREFIX \o <<"a", "n", "o", "n">> \o COLON \o Domain
                  \o COLON \o SessionTwo],
     SessionHeader(ANON, Domain, SessionTwo),
     SessionHeader(AUTH, Domain, SessionTwo),
     SessionHeader(AUTH, Domain, SessionOne),
     SessionHeader(ANON, <<"o">>, SessionTwo),
     SessionHeader(ANON, <<"\"">>, SessionTwo)}

\* the requests that arrive: every credential and header on the API path;
\* off the API path neither is looked at before the cookie session is used
RequestInputs ==
    {[path |-> p, auth |-> a, meta |-> m] :
        p \in {q \in Paths : is_api_request(q)},
        a \in Authorizations, m \in PipelineHeaders}
    \cup
    {[path |-> p, auth |-> a, meta |-> m] :
        p \in {q \in Paths : ~is_api_request(q)},
        a \in {NoAuth},
        m \in {Absent, SessionHeader(ANON, Domain, SessionTwo),
                SessionHeader(ANON, <<"o">>, SessionTwo)}}

NoSession == [bound |-> FALSE, kind |-> "none", key |-> <<>>]
NoResponse == [status |-> "", body |-> <<>>, session_id |-> Absent]
NoResume == [calls |-> 0, type |-> <<>>, id |-> <<>>, found |-> FALSE,
             raised |-> FALSE, key |-> <<>>]

BlankRequest ==
    [pc |-> "idle",
     path |-> <<>>, auth |-> NoAuth, meta |-> Absent, domain |-> <<>>,
     session |-> NoSession,              \* request.session
     parsed_session_uri |-> None,        \* request.parsed_session_uri (ok: set)
     csrf_processing_done |-> FALSE,     \* request.csrf_processing_done
     response |-> NoResponse,
     steps |-> <<>>,                     \* the steps run for the request, in order
     resume |-> NoResume]                \* the call of start_or_resume, if any

StoreKeys == {s.key : s \in store}

\* session_id_from_parsed_session_uri(parsed_session_uri)
session_id_from_parsed_session_uri(p) == p.session_id

\* get_session(session_id, raise_on_create) on a store holding `keys`
get_session(keys, session_id, raise_on_create) ==
    IF session_id \in keys
    THEN [raised |-> FALSE, created |-> FALSE, key |-> session_id]
    ELSE IF raise_on_create
         THEN [raised |-> TRUE, created |-> FALSE, key |-> <<>>]
         ELSE [raised |-> FALSE, created |-> TRUE, key |-> session_id]

\* (raise_on_create=False for every type)
start_or_resume_nocheck(keys, session_id, session_type) ==
    get_session(keys, session_id, FALSE)

\* (the two branches exchanged)
start_or_resume_swapped(keys, session_id, session_type) ==
    IF session_type = ANON
    THEN get_session(keys, session_id, TRUE)
    ELSE get_session(keys, session_id, FALSE)

\* start_or_resume(session_id, session_type)
start_or_resume(keys, session_id, session_type) ==
    IF session_type = ANON
    THEN get_session(keys, session_id, FALSE)
    ELSE get_session(keys, session_id, TRUE)

\* HttpResponse('{"reason": "%s"}' % e.detail, content_type='application/json')
\* with status_code = e.status_code
ApiErrorResponse(status_code, detail) ==
    [status |-> status_code,
     body |-> <<"{", "\"", "reason", "\"", ":", " ", "\"">> \o detail \o <<"\"", "}">>,
     session_id |-> Absent]

\* _('Can not accept cookie with realm %s on realm %s') % (realm, domain)
NotAcceptableDetail(realm, domain) ==
    <<"Can not accept cookie with realm ">> \o realm \o <<" on realm ">> \o domain

\* the status_code of the failure get_session raises
SessionNotFoundStatus == "SessionNotFound.status_code"

\* the detail of the failure get_session raises
SessionNotFoundDetail == <<"SessionNotFound">>

\* an exception that leaves the middleware uncaught
Unhandled(exc) == [status |-> exc, body |-> <<>>, session_id |-> Absent]

\* the exceptions that are exceptions.APIException: NotAcceptable, and the
\* failure get_session raises
APIExceptions == {"NotAcceptable", "SessionNotFound"}

\* (an except clause that catches nothing)
CaughtByProcessRequest_none(exc) == FALSE

\* except exceptions.APIException as e
CaughtByProcessRequest(exc) == exc \in APIExceptions

\* the response process_request ends with when exc is raised in its try block
RaisedResponse(exc, status_code, detail) ==
    IF CaughtByProcessRequest(exc)
    THEN ApiErrorResponse(status_code, detail)
    ELSE Unhandled(exc)

\* (the session of a request bound without the key that was resumed)
BoundSession_fresh(key) == [bound |-> TRUE, kind |-> "header", key |-> <<>>]

\* request.session = start_or_resume(...)
BoundSession(key) == [bound |-> TRUE, kind |-> "header", key |-> key]

\* (the request given the cookie session and exempted from the CSRF check)
CookieFallback_exempt(q) ==
    [q EXCEPT !.session = [bound |-> TRUE, kind |-> "cookie", key |-> <<>>],
              !.csrf_processing_done = TRUE]

\* super().process_request(request): request.session is the cookie session
CookieFallback(q) ==
    [q EXCEPT !.session = [bound |-> TRUE, kind |-> "cookie", key |-> <<>>]]

\* (the test for the parsed reference left out)
ShouldWrite_noreference(q) == is_api_request(q.path) /\ q.session.bound

\* (the header written for every API request)
ShouldWrite_apionly(q) == is_api_request(q.path)

\* is_api_request(request) and getattr(request, 'session', None) is not None
\* and hasattr(request, 'parsed_session_uri')
ShouldWrite(q) ==
    /\ is_api_request(q.path)
    /\ q.session.bound
    /\ q.parsed_session_uri.ok

\* the key request.session.cycle_key() moves the session to
NewKey == <<"n">>

\* the store after cycle_key() on the session with key old
CycledStore(st, old) ==
    {s \in st : s.key # old} \cup {[key |-> NewKey, origin |-> <<"cycle">>]}

\* the response Django makes of PermissionDenied
ForbiddenResponse == [status |-> "403", body |-> <<>>, session_id |-> Absent]

\* the response of the view
ViewResponse == [status |-> "200", body |-> <<"view">>, session_id |-> Absent]

PipeInit ==
    /\ registry = ApiKeys
    /\ store = {[key |-> SessionOne, origin |-> <<"login">>]}
    /\ req = [r \in ReqIds |-> BlankRequest]

ParseIdle ==
    /\ meta = Absent
    /\ parsed = None
    /\ rendered = <<>>
    /\ reparsed = None
    /\ ppc = "idle"

\* a request arrives
Arrive(r) ==
    /\ req[r].pc = "idle"
    /\ \E i \in RequestInputs :
          req' = [req EXCEPT ![r] =
                    [BlankRequest EXCEPT !.pc = "gateway", !.path = i.path,
                        !.auth = i.auth, !.meta = i.meta, !.domain = Domain]]
    /\ UNCHANGED <<registry, store>>

\* ApiGatewayMiddleWare.process_request
ApiGatewayRequest(r) ==
    /\ req[r].pc = "gateway"
    /\ LET q == req[r]
           key == get_authorization_header(q.auth)
       IN  IF is_api_request(q.path) /\ ~KeyExists(registry, key)
           THEN \* raise PermissionDenied(): no later process_request runs
                req' = [req EXCEPT ![r] =
                          [q EXCEPT !.pc = "response",
                                    !.response = ForbiddenResponse,
                                    !.steps = @ \o <<"denied">>]]
           ELSE \* return None
                req' = [req EXCEPT ![r] = [q EXCEPT !.pc = "session"]]
    /\ UNCHANGED <<registry, store>>

\* (every realm accepted)
RealmAccepted_any(realm, domain) == TRUE

\* not (parsed_session_uri['realm'] != domain)
RealmAccepted(realm, domain) == realm = domain

\* HeaderSessionMiddleware.process_request
HeaderSessionRequest(r) ==
    /\ req[r].pc = "session"
    /\ LET q == req[r]
           uri == parse_session_id(q.meta)
           domain == q.domain
           sid == session_id_from_parsed_session_uri(uri)
           res == start_or_resume(StoreKeys, sid, uri.type)
       IN  IF is_api_request(q.path) /\ uri.ok
           THEN IF ~RealmAccepted(uri.realm, domain)
                THEN \* raise NotAcceptable, caught: the 406 response is returned
                     /\ req' = [req EXCEPT ![r] =
                          [q EXCEPT !.pc = "response",
                             !.response = RaisedResponse("NotAcceptable", "406",
                                 NotAcceptableDetail(uri.realm, domain)),
                             !.steps = @ \o <<"classify", "parse", "validate">>]]
                     /\ UNCHANGED store
                ELSE IF res.raised
                THEN \* get_session raises, caught: its response is returned
                     /\ req' = [req EXCEPT ![r] =
                          [q EXCEPT !.pc = "response",
                             !.response = RaisedResponse("SessionNotFound",
                                 SessionNotFoundStatus, SessionNotFoundDetail),
                             !.steps = @ \o <<"classify", "parse", "validate",
                                             "resume">>,
                             !.resume = [calls |-> 1, type |-> uri.type,
                                         id |-> sid,
                                         found |-> sid \in StoreKeys,
                                         raised |-> TRUE, key |-> <<>>]]]
                     /\ UNCHANGED store
                ELSE \* the session and the reference are bound; return None
                     /\ req' = [req EXCEPT ![r] =
                          [q EXCEPT !.pc = "view",
                             !.session = BoundSession(res.key),
                             !.parsed_session_uri = uri,
                             !.csrf_processing_done = TRUE,
                             !.steps = @ \o <<"classify", "parse", "validate",
                                             "resume", "bind">>,
                             !.resume = [calls |-> 1, type |-> uri.type,
                                         id |-> sid,
                                         found |-> sid \in StoreKeys,
                                         raised |-> FALSE, key |-> res.key]]]
                     /\ store' = IF res.created
                                 THEN store \cup {[key |-> res.key,
                                                   origin |-> uri.type]}
                                 ELSE store
           ELSE \* super().process_request(request): the cookie session
                /\ req' = [req EXCEPT ![r] =
                     [CookieFallback(q) EXCEPT !.pc = "view",
                        !.steps = @ \o (IF is_api_request(q.path)
                                        THEN <<"classify", "parse", "cookie">>
                                        ELSE <<"classify", "cookie">>)]]
                /\ UNCHANGED store
    /\ UNCHANGED registry

\* downstream handling: the view makes the response; it reads and writes
\* the session, or moves it to a new key (request.session.cycle_key(), as a
\* login does)
View(r) ==
    /\ req[r].pc = "view"
    /\ \E effect \in {"use", "cycle_key"} :
          IF effect = "cycle_key"
          THEN /\ req' = [req EXCEPT ![r] =
                         [@ EXCEPT !.pc = "response", !.response = ViewResponse,
                                   !.session.key = NewKey,
                                   !.steps = @ \o <<"downstream", "cycle_key">>]]
               /\ store' = CycledStore(store, req[r].session.key)
          ELSE /\ req' = [req EXCEPT ![r] =
                         [@ EXCEPT !.pc = "response", !.response = ViewResponse,
                                   !.steps = @ \o <<"downstream">>]]
               /\ UNCHANGED store
    /\ UNCHANGED registry

\* HeaderSessionMiddleware.process_response
HeaderSessionResponse(r) ==
    /\ req[r].pc = "response"
    /\ LET q == req[r]
       IN  IF ShouldWrite(q)
           THEN IF q.session.key =
                      session_id_from_parsed_session_uri(q.parsed_session_uri)
                THEN req' = [req EXCEPT ![r] =
                        [q EXCEPT !.pc = "done",
                           !.response.session_id =
                               [present |-> TRUE,
                                val |-> RenderSessionId(q.parsed_session_uri)],
                           !.steps = @ \o <<"write">>]]
                ELSE \* the assertion fails
                     req' = [req EXCEPT ![r] =
                        [q EXCEPT !.pc = "done",
                           !.response = Unhandled("AssertionError")]]
           ELSE req' = [req EXCEPT ![r] = [q EXCEPT !.pc = "done"]]
    /\ UNCHANGED <<registry, store>>

\* the response has been sent; the worker takes the next request
Finish(r) ==
    /\ req[r].pc = "done"
    /\ req' = [req EXCEPT ![r] = BlankRequest]
    /\ UNCHANGED <<registry, store>>

\* an ApiKey is created
AddKey(k) ==
    /\ k \notin registry
    /\ registry' = registry \cup {k}
    /\ UNCHANGED <<store, req>>

\* an ApiKey is deleted
RemoveKey(k) ==
    /\ k \in registry
    /\ registry' = registry \ {k}
    /\ UNCHANGED <<store, req>>

Init == PipeInit /\ ParseIdle

Next ==
    \/ \E r \in ReqIds : Arrive(r) /\ UNCHANGED parseVars
    \/ \E r \in ReqIds : ApiGatewayRequest(r) /\ UNCHANGED parseVars
    \/ \E r \in ReqIds : HeaderSessionRequest(r) /\ UNCHANGED parseVars
    \/ \E r \in ReqIds : View(r) /\ UNCHANGED parseVars
    \/ \E r \in ReqIds : HeaderSessionResponse(r) /\ UNCHANGED parseVars
    \/ \E r \in ReqIds : Finish(r) /\ UNCHANGED parseVars
    \/ \E k \in ApiKeys : AddKey(k) /\ UNCHANGED parseVars
    \/ \E k \in ApiKeys : RemoveKey(k) /\ UNCHANGED parseVars

Spec == Init /\ [][Next]_vars

----------------------------------------------------------------------------
(* Properties of the request pipeline (Spec) *)

Ran(r, step) == \E k \in 1..Len(req[r].steps) : req[r].steps[k] = step

\* HeaderSessionMiddleware.process_request has handled the request
Handled(r) == Ran(r, "classify")

\* reading a JSON string whose opening quote precedes position k: the
\* position of its closing quote, 0 when the text ends or an escape is bad
RECURSIVE JsonStringEnd(_, _)
JsonStringEnd(b, k) ==
    IF k > Len(b) THEN 0
    ELSE IF b[k] = "\"" THEN k
    ELSE IF b[k] = "\\"
         THEN IF k < Len(b) /\ b[k + 1] \in {"\"", "\\", "/", "b", "f", "n", "r", "t"}
              THEN JsonStringEnd(b, k + 2)
              ELSE 0
    ELSE JsonStringEnd(b, k + 1)

\* b reads as the JSON object {"reason": "<string>"}
IsJsonReasonObject(b) ==
    /\ StartsWith(b, <<"{", "\"", "reason", "\"", ":", " ", "\"">>)
    /\ JsonStringEnd(b, 8) = Len(b) - 1
    /\ b[Len(b)] = "}"

\* the Session-Id header of the request parses to a realm other than its domain
RealmMismatch(r) ==
    /\ is_api_request(req[r].path)
    /\ parse_session_id(req[r].meta).ok
    /\ parse_session_id(req[r].meta).realm # req[r].domain

\* C1: an API request whose Session-Id header parses to a realm other than
\* the request's domain gets a 406 response whose body is a JSON object
\* with a reason field; the resumer is not called and the view never runs.
C1_RealmMismatchShortCircuits ==
    \A r \in ReqIds :
        (Handled(r) /\ RealmMismatch(r)) =>
            /\ req[r].pc \in {"response", "done"}
            /\ req[r].response.status = "406"
            /\ IsJsonReasonObject(req[r].response.body)
            /\ req[r].resume.calls = 0
            /\ ~Ran(r, "resume")
            /\ ~Ran(r, "downstream")

\* the credential of the request is one the registry holds
KnownCredential(a) == a.present /\ a.val # "" /\ a.val \in registry

SessionLogicRan(r) ==
    \/ \E st \in {"classify", "parse", "validate", "resume", "bind"} : Ran(r, st)
    \/ req[r].session.bound
    \/ req[r].parsed_session_uri.ok
    \/ req[r].resume.calls > 0

\* C2: the gateway rejects an API request whose Authorization value is
\* absent, empty or unknown to the registry with an access-denied failure,
\* and no session logic ever runs for it; it passes an API request whose
\* value the registry holds on to HeaderSessionMiddleware, unchanged.
C2_GatewayDecides ==
    /\ [](\A r \in ReqIds :
            Ran(r, "denied") =>
                /\ ~SessionLogicRan(r)
                /\ ~Ran(r, "downstream")
                /\ req[r].response.status = "403")
    /\ [][\A r \in ReqIds :
            (/\ req[r].pc = "gateway"
             /\ req'[r].pc # "gateway"
             /\ is_api_request(req[r].path)) =>
                IF KnownCredential(req[r].auth)
                THEN req'[r] = [req[r] EXCEPT !.pc = "session"]
                ELSE /\ req'[r].pc = "response"
                     /\ Ran(r, "denied")'
                     /\ req'[r].response = ForbiddenResponse]_vars

C2_Witness ==
    \E r \in ReqIds :
        /\ req[r].pc = "done"
        /\ req[r].auth = [present |-> TRUE, val |-> "k2"]
        /\ req[r].meta = SessionHeader(ANON, Domain, SessionTwo)
        /\ req[r].steps = <<"denied">>
        /\ req[r].response = ForbiddenResponse

\* the request resumed, with type ty, an id that had no session in the store
ResumedAbsent(r, ty) ==
    /\ req[r].resume.calls > 0
    /\ req[r].resume.type = ty
    /\ ~req[r].resume.found

\* C3: resuming with type AUTH an id that has no session in the store fails
\* with SessionNotFound and leaves the store as it was; no session of the
\* store was ever created by an AUTH resume.
C3_AuthNeverCreates ==
    /\ [](/\ \A s \in store : s.origin # AUTH
          /\ \A r \in ReqIds :
                ResumedAbsent(r, AUTH) =>
                    /\ req[r].resume.raised
                    /\ ~req[r].session.bound
                    /\ req[r].response.status = SessionNotFoundStatus)
    /\ [][\A r \in ReqIds :
            (req[r].pc = "session" /\ ResumedAbsent(r, AUTH)') =>
                store' = store]_vars

C3_Witness ==
    \E r \in ReqIds :
        /\ ResumedAbsent(r, AUTH)
        /\ req[r].resume.raised
        /\ req[r].resume.id = SessionTwo
        /\ SessionTwo \notin StoreKeys

\* C4: resuming with type ANON an id that has no session in the store does
\* not fail, and the session it yields has the requested id as its key.
C4_AnonCreatesWithId ==
    \A r \in ReqIds :
        ResumedAbsent(r, ANON) =>
            /\ ~req[r].resume.raised
            /\ req[r].resume.key = parse_session_id(req[r].meta).session_id
            /\ req[r].pc = "view" =>
                  /\ req[r].session.bound
                  /\ req[r].session.key = req[r].resume.key

C4_Witness ==
    \E r \in ReqIds :
        /\ ResumedAbsent(r, ANON)
        /\ req[r].pc = "view"
        /\ req[r].session.key = SessionTwo
        /\ [key |-> SessionTwo, origin |-> ANON] \in store


\* the request has a session and a parsed reference bound, in the API namespace
BoundInApi(r) ==
    /\ is_api_request(req[r].path)
    /\ req[r].session.bound
    /\ req[r].parsed_session_uri.ok

\* the assertion of process_response holds for the request
KeyMatches(r) == req[r].session.key = req[r].parsed_session_uri.session_id

HeaderSessionBound(r) ==
    /\ req[r].session.bound
    /\ req[r].session.kind = "header"
    /\ req[r].parsed_session_uri.ok

Failures == APIExceptions \cup {"AssertionError"}

\* a failure left process_request or process_response for the request
Leaked(r) == \E exc \in Failures : req[r].response = Unhandled(exc)

OutsideOrUnparsed(r) ==
    \/ \E k \in 1..Len(ApiRoot) :
          k > Len(req[r].path) \/ Lower(req[r].path)[k] # Lower(ApiRoot)[k]
    \/ ~req[r].meta.present
    \/ ~WellFormedText(req[r].meta.val)

\* C14: for a request outside the API namespace, or inside it with an absent
\* or malformed Session-Id header, process_request delegates to the cookie
\* session: it produces no error response and runs neither realm validation
\* nor header-session resume.
C14_FallbackIsSilent ==
    \A r \in ReqIds :
        (Handled(r) /\ OutsideOrUnparsed(r)) =>
            /\ Ran(r, "cookie")
            /\ req[r].session.bound
            /\ req[r].session.kind = "cookie"
            /\ ~Ran(r, "validate")
            /\ ~Ran(r, "resume")
            /\ req[r].resume.calls = 0
            /\ ~req[r].parsed_session_uri.ok
            /\ req[r].response \in {NoResponse, ViewResponse}

C14_Witness ==
    \E r, s \in ReqIds :
        /\ req[r].pc = "done"
        /\ is_api_request(req[r].path)
        /\ req[r].meta.present
        /\ OutsideOrUnparsed(r)
        /\ req[r].response = ViewResponse
        /\ req[s].pc = "done"
        /\ ~is_api_request(req[s].path)
        /\ req[s].meta = SessionHeader(ANON, <<"o">>, SessionTwo)
        /\ req[s].session.kind = "cookie"


\* the gateway takes its decision for request r in this step
GatewayDecides(r) ==
    /\ req[r].pc = "gateway"
    /\ req'[r].pc # "gateway"
    /\ is_api_request(req[r].path)

\* C15: the gateway's decision for an API request is a function of the
\* registry's content at that step and of the request's credential alone,
\* whatever was decided before for the same credential; the decision itself
\* leaves the registry and every other request as they were, so nothing is
\* remembered from one decision to the next.
C15_DecisionFollowsRegistry ==
    [][\A r \in ReqIds :
          GatewayDecides(r) =>
              /\ req'[r].pc = "session"
                    <=> (req[r].auth.present /\ req[r].auth.val \in registry)
              /\ req'[r].pc = "response"
                    <=> ~(req[r].auth.present /\ req[r].auth.val \in registry)
              /\ registry' = registry
              /\ \A s \in ReqIds \ {r} : req'[s] = req[s]]_vars

C15_Witness ==
    \E r, s \in ReqIds :
        /\ req[r].auth = [present |-> TRUE, val |-> "k1"]
        /\ req[s].auth = req[r].auth
        /\ is_api_request(req[r].path)
        /\ is_api_request(req[s].path)
        /\ req[r].pc = "done"
        /\ req[r].response = ForbiddenResponse
        /\ req[s].pc = "session"
        /\ registry = {"k1"}


\* realm validation or session resume failed for the request
RequestPhaseFailed(r) ==
    \/ Ran(r, "validate") /\ ~Ran(r, "resume")
    \/ req[r].resume.raised
    \/ RealmMismatch(r) /\ Handled(r)
    \/ ResumedAbsent(r, AUTH)

\* C16: when realm validation or session resume fails for an API request,
\* no session, no parsed reference and no CSRF exemption is bound to the
\* request, downstream handling does not run, and the response phase writes
\* no Session-Id header.
C16_FailureBindsNothing ==
    \A r \in ReqIds :
        RequestPhaseFailed(r) =>
            /\ ~req[r].session.bound
            /\ req[r].session = NoSession
            /\ ~req[r].parsed_session_uri.ok
            /\ ~req[r].csrf_processing_done
            /\ ~Ran(r, "bind")
            /\ ~Ran(r, "downstream")
            /\ ~Ran(r, "write")
            /\ ~req[r].response.session_id.present

C16_Witness ==
    \E r, s \in ReqIds :
        /\ req[r].pc = "done"
        /\ req[r].meta = SessionHeader(AUTH, Domain, SessionTwo)
        /\ req[r].resume.raised
        /\ req[s].pc = "done"
        /\ req[s].meta = SessionHeader(ANON, <<"o">>, SessionTwo)
        /\ is_api_request(req[s].path)
        /\ req[s].response.status = "406"


\* the steps of section 4.5, in their order
StepOrder ==
    <<"classify", "parse", "validate", "resume", "bind", "downstream", "write">>

Rank(step) == CHOOSE k \in 1..Len(StepOrder) : StepOrder[k] = step

IsOrderedStep(step) == \E k \in 1..Len(StepOrder) : StepOrder[k] = step

\* t is s with steps added at its end
Extends(t, s) == Len(t) >= Len(s) /\ SubSeq(t, 1, Len(s)) = s

\* C17: the steps of one request occur in the order classify, parse,
\* validate, resume, bind, downstream, write, each at most once and none
\* before its predecessor succeeded; a step of the pipeline adds to the end
\* of the steps of one request and leaves the steps of every other request
\* as they are.
C17_StepsInOrder ==
    /\ [](\A r \in ReqIds :
            LET st == req[r].steps IN
            /\ \A i, j \in 1..Len(st) :
                  (i < j /\ IsOrderedStep(st[i]) /\ IsOrderedStep(st[j])) =>
                      Rank(st[i]) < Rank(st[j])
            /\ Ran(r, "parse") => Ran(r, "classify")
            /\ Ran(r, "validate") =>
                  Ran(r, "parse") /\ WellFormedText(req[r].meta.val)
            /\ Ran(r, "resume") =>
                  Ran(r, "validate") /\ ~RealmMismatch(r)
            /\ Ran(r, "bind") =>
                  Ran(r, "resume") /\ ~req[r].resume.raised
            /\ (Ran(r, "downstream") /\ Ran(r, "validate")) => Ran(r, "bind")
            /\ Ran(r, "downstream") => Ran(r, "classify")
            /\ Ran(r, "write") => Ran(r, "bind") /\ Ran(r, "downstream"))
    /\ [][/\ \A r \in ReqIds :
                \/ Extends(req'[r].steps, req[r].steps)
                \/ req[r].pc = "done" /\ req'[r] = BlankRequest
          /\ \A r, s \in ReqIds :
                (r # s /\ req'[r].steps # req[r].steps) =>
                    req'[s].steps = req[s].steps]_vars

C17_Witness ==
    \E r, s \in ReqIds :
        /\ req[r].steps = StepOrder
        /\ req[r].pc = "done"
        /\ req[s].pc = "view"
        /\ req[s].steps = <<"classify", "parse", "validate", "resume", "bind">>
        /\ req[s].meta = req[r].meta


\* C18: csrf_processing_done is set only on a request whose header session
\* was resumed without failure and bound together with its parsed
\* reference; it is not set on a request that uses the cookie session, nor
\* on a rejected request.
C18_ExemptOnlyWhenBound ==
    \A r \in ReqIds :
        /\ req[r].csrf_processing_done =>
              /\ Ran(r, "bind")
              /\ is_api_request(req[r].path)
              /\ WellFormedText(req[r].meta.val)
              /\ req[r].session.bound
              /\ req[r].session.kind = "header"
              /\ req[r].parsed_session_uri = parse_session_id(req[r].meta)
              /\ req[r].resume.calls = 1
              /\ ~req[r].resume.raised
        /\ (\/ Ran(r, "cookie")
            \/ req[r].session.kind = "cookie"
            \/ Ran(r, "denied")
            \/ req[r].response.status \in {"403", "406", SessionNotFoundStatus})
              => ~req[r].csrf_processing_done

C18_Witness ==
    \E r, s \in ReqIds :
        /\ req[r].pc = "view"
        /\ req[r].csrf_processing_done
        /\ req[r].session.key = SessionOne
        /\ req[s].pc = "view"
        /\ is_api_request(req[s].path)
        /\ req[s].session.kind = "cookie"
        /\ ~req[s].csrf_processing_done

====
